---- MODULE Spec2Model ----
(***************************************************************************)
(* A model of telegram-claude-bridge: the permission broker of             *)
(* bridge/daemon.py + bridge/state.py, the session registry of             *)
(* bridge/sessions.py and the Telegram handlers of bridge/telegram_bot.py. *)
(*                                                                         *)
(* Everything runs on one asyncio event loop, so a coroutine is atomic     *)
(* between two awaits that really suspend.  Every such stretch of code is  *)
(* one action.  The Telegram Application is built with its default         *)
(* settings (telegram_bot.py:50-54), so updates are dispatched one at a    *)
(* time: a new update is handled only when no callback handler is in       *)
(* flight.  HTTP requests (request_permission) interleave freely with it.  *)
(***************************************************************************)
EXTENDS Integers, FiniteSets, Sequences, TLC

(* ------------------------------ bounds -------------------------------- *)
NumSubmitters == 2      \* concurrent POST /permission calls
NumRequestIds == 2      \* distinct caller-supplied request ids
NumSessions == 1        \* distinct session ids
NumRegistrySessions == 2    \* session ids of the registry taken on its own
NumCallers == 2         \* concurrent create_or_update calls
NumHooks == 2           \* permission_request.py processes
MaxPanes == 2           \* lines of a tmux list-panes listing

Procs == 1..NumSubmitters
RequestIds == 1..NumRequestIds
SessionIds == 1..NumSessions
Callers == 1..NumCallers
Hooks == 1..NumHooks
RegistryIds == 1..NumRegistrySessions

(* ------------------------------ values -------------------------------- *)
None == "None"                       \* Python's None, for string fields
NoSession == 0                       \* session_id: str | None = None
NoProc == 0                          \* "no PendingRequest object"
TelegramChatId == 1                  \* settings.telegram_chat_id
Chats == {TelegramChatId, TelegramChatId + 1}

NoCaller == 0                        \* sessions._lock is not held

TimeoutReason == "Timeout - no response received"
DeniedReason == "Denied via Telegram"

Fields == {"tty", "cwd", "pid", "status", "last_message", "last_tool"}
SessionDefaults ==
    [tty |-> None, cwd |-> None, pid |-> None, status |-> "unknown",
     last_message |-> None, last_tool |-> None]

VARIABLES
    app,            \* bot.app is set (TelegramBot.initialize has run)
    pending,        \* state._pending: request_id -> the PendingRequest object
    pc,             \* position of each request_permission call
    req,            \* the PendingRequest object each call created
    result,         \* the PermissionResponse each call returned
    note,           \* text of the Telegram message sent for each request
    sessions,       \* sessions._sessions: session_id -> Session
    allowed,        \* sessions._allowed_sessions
    reply_targets,  \* bot._reply_targets: chat_id -> session_id
    cb,             \* the _handle_callback invocation in flight
    dispatched,     \* sessions whose terminal send_input tried to write to
    calls,          \* the external calls the last send_input made, in order
    accepted,       \* per call: callbacks that recorded a decision on its
                    \* PendingRequest object (0, 1, 2 or more)
    last,           \* the last inbound update, event or registry call handled,
                    \* and its outcome
    lock,           \* sessions._lock: the create_or_update call holding it
    co,             \* the create_or_update coroutines and where each stands
    probe,          \* the last choice of a tmux target: tty, listing, target
    hook            \* the permission_request.py processes: input, answer,
                    \* what each printed and how it exited

vars == <<app, pending, pc, req, result, note, sessions, allowed,
          reply_targets, cb, dispatched, calls, accepted, last,
          lock, co, probe, hook>>


(* --------------------------- state.py --------------------------------- *)
\* PendingRequest(request_id, tool, command, session_id) with its defaults.
\* tool and command are only displayed, never branched on.
PendingRequest(rid, sid) ==
    [request_id |-> rid, session_id |-> sid, event |-> FALSE,
     decision |-> None, reason |-> None, message_id |-> None]

\* the slot of a call that has not built its PendingRequest yet
NoRequest ==
    [request_id |-> 0, session_id |-> NoSession, event |-> FALSE,
     decision |-> None, reason |-> None, message_id |-> None]

\* StateManager.add: self._pending[request.request_id] = request
StateAdd(pend, rid, p) ==
    [r \in (DOMAIN pend) \cup {rid} |-> IF r = rid THEN p ELSE pend[r]]

\* StateManager.get: self._pending.get(request_id)
StateGet(pend, rid) == IF rid \in DOMAIN pend THEN pend[rid] ELSE NoProc

\* a remove that leaves the entry in place
StateRemoveNever(pend, rid) == pend

\* StateManager.remove: self._pending.pop(request_id, None)
StateRemove(pend, rid) == [r \in (DOMAIN pend) \ {rid} |-> pend[r]]

\* StateManager.count
StateCount(pend) == Cardinality(DOMAIN pend)

(* --------------------------- sessions.py ------------------------------ *)
\* an update that stores every supplied keyword, None included
SessionUpdateStoresNone(s, kw) ==
    [f \in Fields |-> IF f \in DOMAIN kw THEN kw[f] ELSE s[f]]

\* Session.update(**kwargs): a supplied value that is not None overwrites.
SessionUpdate(s, kw) ==
    [f \in Fields |-> IF f \in DOMAIN kw /\ kw[f] # None THEN kw[f] ELSE s[f]]

\* Session(session_id=session_id, **kwargs): a supplied keyword is stored as
\* given (None included); a keyword not supplied takes the dataclass default.
NewSession(kw) ==
    [f \in Fields |-> IF f \in DOMAIN kw THEN kw[f] ELSE SessionDefaults[f]]

\* SessionManager.create_or_update, run to completion under self._lock.
CreateOrUpdateMap(sess, sid, kw) ==
    [s \in (DOMAIN sess) \cup {sid} |->
        IF s # sid THEN sess[s]
        ELSE IF sid \in DOMAIN sess THEN SessionUpdate(sess[sid], kw)
        ELSE NewSession(kw)]

\* SessionManager.get
SessionGet(sess, sid) == sid \in DOMAIN sess

\* a listing of every registered session, ended or not
SessionActiveAll(sess) == DOMAIN sess

\* SessionManager.active: the sessions whose status is not "ended"
SessionActive(sess) == {s \in DOMAIN sess : sess[s].status # "ended"}

\* a listing of the sessions that are not ended in place of the waiting ones
SessionWaitingIsActive(sess) == SessionActive(sess)

\* SessionManager.waiting_for_input
SessionWaitingForInput(sess) ==
    {s \in DOMAIN sess : sess[s].status = "waiting_for_input"}

\* SessionManager.count: len(self.active())
SessionCount(sess) == Cardinality(SessionActive(sess))

\* a remove that leaves the allow-all marker in place
AllowedKeep(al, sid) == al

\* SessionManager.remove, on self._sessions and on self._allowed_sessions
SessionRemoveMap(sess, sid) == [s \in (DOMAIN sess) \ {sid} |-> sess[s]]
AllowedDiscard(al, sid) == al \ {sid}

\* the keywords of a call that Session.update acts on (value is not None)
Supplied(kw) == {f \in DOMAIN kw : kw[f] # None}

\* what a create_or_update call supplied, for the record kept in `last`
KwKind(kw) ==
    IF Supplied(kw) = {} THEN "nothing"
    ELSE IF Supplied(kw) = {"status"} THEN "status only"
    ELSE IF "status" \in Supplied(kw) THEN "status and fields"
    ELSE "fields"

\* SessionManager.is_session_allowed
IsSessionAllowed(al, sid) == sid \in al

\* SessionManager.allow_session
AllowSession(al, sid) == al \cup {sid}

\* Session.send_input.  What its external calls (subprocess.run) do is the
\* environment: whether TMUX_PATH is set; whether tmux list-panes raised,
\* returned non-zero, listed a pane of the session's tty, listed no such pane
\* but one of a tmux session named claude, or listed neither; how the two
\* send-keys calls and osascript ended.
PaneOutcomes == {"raise", "nonzero", "tty", "claude", "none"}
RunOutcomes == {"ok", "nonzero", "raise"}
OsascriptOutcomes == {"ok", "not found", "nonzero", "raise"}
EnvRecords ==
    [tmux_path : BOOLEAN, panes : PaneOutcomes, text : RunOutcomes,
     enter : RunOutcomes, osascript : OsascriptOutcomes]

\* An environment says how the calls that are made end.  For a call the code
\* does not reach (no send-keys without a target, no Enter after a text send
\* that raised, no osascript after tmux sent) the record holds a fixed value.
CallsReached(e) ==
    /\ ~e.tmux_path => e.panes = "none"
    /\ e.panes \notin {"tty", "claude"} => e.text = "ok"
    /\ (e.panes \notin {"tty", "claude"} \/ e.text = "raise") => e.enter = "ok"
    /\ (/\ e.tmux_path /\ e.panes \in {"tty", "claude"}
        /\ e.text = "ok" /\ e.enter = "ok") => e.osascript = "ok"

Envs == {e \in EnvRecords : CallsReached(e)}

\* a check of the tty that lets every session through
NoTtyNever(s) == FALSE

\* sessions.py:67, `if not self.tty`
NoTty(s) == s.tty \in {None, ""}

\* one subprocess.run call of send_input and how it ended
Call(name, out) == [call |-> name, out |-> out]

\* sessions.py:72-129, the calls of the tmux method in order: list-panes,
\* then with a target send-keys for the text and, unless that raised,
\* send-keys for Enter
TmuxCalls(env) ==
    IF ~env.tmux_path THEN <<>>
    ELSE IF env.panes \notin {"tty", "claude"}
    THEN <<Call("tmux list-panes", env.panes)>>
    ELSE IF env.text = "raise"
    THEN <<Call("tmux list-panes", env.panes),
           Call("tmux send-keys text", env.text)>>
    ELSE <<Call("tmux list-panes", env.panes),
           Call("tmux send-keys text", env.text),
           Call("tmux send-keys Enter", env.enter)>>

\* a tmux method that returns True when the Enter send alone succeeded
TmuxSentOnEnter(env) ==
    /\ env.tmux_path
    /\ env.panes \in {"tty", "claude"}
    /\ env.text # "raise"
    /\ env.enter = "ok"

\* sessions.py:121-123, the tmux method returned True
TmuxSent(env) ==
    /\ env.tmux_path
    /\ env.panes \in {"tty", "claude"}
    /\ env.text = "ok"
    /\ env.enter = "ok"

\* a send_input that goes on to osascript whatever tmux did
SendInputCallsAll(s, env) ==
    IF s.tty \in {None, ""} THEN <<>>
    ELSE TmuxCalls(env) \o <<Call("osascript", env.osascript)>>

\* the external calls one send_input makes, in order
SendInputCalls(s, env) ==
    IF NoTty(s) THEN <<>>
    ELSE IF TmuxSent(env) THEN TmuxCalls(env)
    ELSE TmuxCalls(env) \o <<Call("osascript", env.osascript)>>

\* a send_input whose result is that of tmux alone
SendInputTmuxOnly(s, env) ==
    IF s.tty \in {None, ""} THEN FALSE ELSE TmuxSent(env)

\* the value send_input returns
SendInput(s, env) ==
    IF NoTty(s) THEN FALSE
    ELSE IF TmuxSent(env) THEN TRUE
    ELSE env.osascript = "ok"

(* ------------------------- telegram_bot.py ---------------------------- *)
\* a gate that lets every chat through
AuthorizedAnyone(chat) == TRUE

\* authorized_only: the wrapped handler runs only for the configured chat.
Authorized(chat) == chat = TelegramChatId

NoCallback == [pc |-> "idle", msg |-> NoProc, obj |-> NoProc, status |-> None]

NoUpdate == [kind |-> "none", who |-> 0, out |-> None]

\* telegram_bot.py:384-399: decision and final message text of each button
Actions == {"allow", "deny", "allow_session"}
ActionDecision(a) == IF a = "deny" THEN "deny" ELSE "allow"
ActionStatus(a) ==
    CASE a = "allow_session" -> "Allowed (all session)"
      [] a = "allow" -> "Allowed"
      [] OTHER -> "Denied"

(* ------------------ sessions.py: calls not yet made ------------------- *)
\* a create_or_update coroutine that has not been called
NoCoroutine ==
    [pc |-> "idle", sid |-> NoSession, kw |-> [tty |-> None, cwd |-> None],
     found |-> FALSE]

\* no tmux target has been looked for
NoProbe == [tty |-> <<>>, listing |-> <<>>, line |-> 0, tmux_target |-> <<>>]

(* ------------------------ permission_request.py ----------------------- *)
Absent == "absent"                   \* a key the JSON object does not have

\* no answer of the bridge yet
NoAnswer == [kind |-> "none", decision |-> Absent, reason |-> Absent]

\* a hook process Claude Code has started: nothing read, nothing printed
NoHook ==
    [pc |-> "start", stdin |-> "unread", answer |-> NoAnswer, out |-> "none",
     message |-> None, exit |-> "running"]

\* What stdin holds: a JSON object of the expected shape, text json.load
\* rejects, or JSON of another shape (a list, or a tool_input that is not an
\* object), on which .get raises outside every try.
StdinKinds == {"object", "not json", "malformed"}

\* What urlopen and the reading of the response do: a 200 answer that is a
\* JSON object with or without its keys, or an exception.  "Exception"
\* stands for any other one (a body that is not a JSON object among them).
Answers ==
    [kind : {"json"}, decision : {"allow", "deny", "ask", Absent},
     reason : {Absent, None, DeniedReason, TimeoutReason}]
Failures ==
    {[kind |-> k, decision |-> Absent, reason |-> Absent] :
        k \in {"HTTPError", "URLError", "TimeoutError", "Exception"}}

\* dict.get(key, default)
ResultGet(v, default) == IF v = Absent THEN default ELSE v

\* output_allow, output_deny(reason), and a process that prints nothing
OutputAllow == [out |-> "allow", message |-> None]
OutputDeny(reason) == [out |-> "deny", message |-> reason]
NoOutput == [out |-> "none", message |-> None]

\* a hook for which an answer without a decision means allow
HookDecisionDefaultAllow(ans) ==
    CASE ans.kind = "json" ->
            IF ResultGet(ans.decision, "allow") = "allow" THEN OutputAllow
            ELSE OutputDeny(ResultGet(ans.reason, DeniedReason))
      [] ans.kind = "TimeoutError" -> OutputDeny("Telegram approval timeout")
      [] OTHER -> NoOutput

\* permission_request.py:63-84: what main prints for an answer of the bridge
HookDecision(ans) ==
    CASE ans.kind = "json" ->
            IF ResultGet(ans.decision, "deny") = "allow" THEN OutputAllow
            ELSE OutputDeny(ResultGet(ans.reason, DeniedReason))
      [] ans.kind = "TimeoutError" -> OutputDeny("Telegram approval timeout")
      [] OTHER -> NoOutput

(* ------------------------------- Init --------------------------------- *)
Init ==
    /\ app = FALSE
    /\ pending = <<>>
    /\ pc = [p \in Procs |-> "idle"]
    /\ req = [p \in Procs |-> NoRequest]
    /\ result = [p \in Procs |-> [decision |-> None, reason |-> None]]
    /\ note = [p \in Procs |-> "none"]
    /\ sessions = <<>>
    /\ allowed = {}
    /\ reply_targets = <<>>
    /\ cb = NoCallback
    /\ dispatched = {}
    /\ calls = <<>>
    /\ accepted = [p \in Procs |-> 0]
    /\ last = NoUpdate
    /\ lock = NoCaller
    /\ co = [c \in Callers |-> NoCoroutine]
    /\ probe = NoProbe
    /\ hook = [h \in Hooks |-> NoHook]


(* ------------------- daemon.py: request_permission -------------------- *)
\* daemon.py:160-161, the response when request.event was set
EventResponse(r) ==
    [decision |-> IF r.decision = None THEN "deny" ELSE r.decision,
     reason |-> r.reason]

\* a timeout that lets the action through
TimeoutResponseAllow == [decision |-> "allow", reason |-> None]

\* daemon.py:163-165, the response when asyncio.wait_for timed out
TimeoutResponse == [decision |-> "deny", reason |-> TimeoutReason]

\* daemon.py:136-150.  The request is built and added to state._pending, then
\* bot.send_permission_request is awaited.  With bot.app unset that call
\* returns None without suspending and the coroutine goes on to wait_for.
\* Call slots are interchangeable; slot p is used once the slots below it are.
Submit(p, rid, sid) ==
    /\ pc[p] = "idle"
    /\ \A q \in Procs : q < p => pc[q] # "idle"
    /\ req' = [req EXCEPT ![p] = PendingRequest(rid, sid)]
    /\ pending' = StateAdd(pending, rid, p)
    /\ pc' = [pc EXCEPT ![p] = IF app THEN "sending" ELSE "waiting"]
    /\ UNCHANGED <<app, result, note, sessions, allowed, reply_targets, cb,
                   dispatched, calls, accepted, last,
                   lock, co, probe, hook>>

\* telegram_bot.py:122-132 and daemon.py:150-152: send_message returned a
\* message (the notification and its buttons exist) ...
SendDelivered(p) ==
    /\ pc[p] = "sending"
    /\ req' = [req EXCEPT ![p].message_id = "msg"]
    /\ note' = [note EXCEPT ![p] = "Permission Request"]
    /\ pc' = [pc EXCEPT ![p] = "waiting"]
    /\ UNCHANGED <<app, pending, result, sessions, allowed, reply_targets, cb,
                   dispatched, calls, accepted, last,
                   lock, co, probe, hook>>

\* ... or raised: the exception is logged and None is returned.
SendFailed(p) ==
    /\ pc[p] = "sending"
    /\ pc' = [pc EXCEPT ![p] = "waiting"]
    /\ UNCHANGED <<app, pending, req, result, note, sessions, allowed,
                   reply_targets, cb, dispatched, calls, accepted, last,
                   lock, co, probe, hook>>

\* daemon.py:156-162 and 174-177: wait_for returned because the event was
\* set; the entry is popped in the finally clause and the response returned.
WaitReturn(p) ==
    /\ pc[p] = "waiting"
    /\ req[p].event
    /\ result' = [result EXCEPT ![p] = EventResponse(req[p])]
    /\ pending' = StateRemove(pending, req[p].request_id)
    /\ pc' = [pc EXCEPT ![p] = "done"]
    /\ UNCHANGED <<app, req, note, sessions, allowed, reply_targets, cb,
                   dispatched, calls, accepted, last,
                   lock, co, probe, hook>>

\* daemon.py:163-173: wait_for raised TimeoutError.  The timer and a set() of
\* the event may fall in the same loop iteration, and which of the two wins
\* depends on the asyncio implementation, so the timeout is not excluded by
\* the event being set.  With a message_id the coroutine suspends in
\* bot.update_message before the finally clause runs; without one it does not
\* suspend.
Timeout(p) ==
    /\ pc[p] = "waiting"
    /\ result' = [result EXCEPT ![p] = TimeoutResponse]
    /\ IF req[p].message_id # None
       THEN /\ pc' = [pc EXCEPT ![p] = "updating"]
            /\ UNCHANGED pending
       ELSE /\ pc' = [pc EXCEPT ![p] = "done"]
            /\ pending' = StateRemove(pending, req[p].request_id)
    /\ UNCHANGED <<app, req, note, sessions, allowed, reply_targets, cb,
                   dispatched, calls, accepted, last,
                   lock, co, probe, hook>>

\* telegram_bot.py:134-147 and daemon.py:174-177: edit_message_text replaced
\* the notification by the timeout text (and dropped its buttons) ...
UpdateDone(p) ==
    /\ pc[p] = "updating"
    /\ note' = [note EXCEPT ![p] = "Timeout"]
    /\ pending' = StateRemove(pending, req[p].request_id)
    /\ pc' = [pc EXCEPT ![p] = "done"]
    /\ UNCHANGED <<app, req, result, sessions, allowed, reply_targets, cb,
                   dispatched, calls, accepted, last,
                   lock, co, probe, hook>>

\* ... or raised, which update_message logs and swallows.
UpdateFailed(p) ==
    /\ pc[p] = "updating"
    /\ pending' = StateRemove(pending, req[p].request_id)
    /\ pc' = [pc EXCEPT ![p] = "done"]
    /\ UNCHANGED <<app, req, result, note, sessions, allowed, reply_targets,
                   cb, dispatched, calls, accepted, last,
                   lock, co, probe, hook>>


(* ---------------- telegram_bot.py: the update handlers ---------------- *)
Handled(kind, who, out) == [kind |-> kind, who |-> who, out |-> out]

\* TelegramBot.initialize, awaited by the lifespan of daemon.py:61
Initialize ==
    /\ ~app
    /\ app' = TRUE
    /\ UNCHANGED <<pending, pc, req, result, note, sessions, allowed,
                   reply_targets, cb, dispatched, calls, accepted, last,
                   lock, co, probe, hook>>

\* The effect of telegram_bot.py:378-399 on the PendingRequest q found live.
RecordDecision(r, a) ==
    [r EXCEPT !.decision = ActionDecision(a),
              !.reason = IF a = "deny" THEN DeniedReason ELSE @]

\* telegram_bot.py:345-357 and 378-409: a permission button of the message
\* sent for call m was pressed in chat `chat`.  The button carries the request
\* id of m.  Up to the await of edit_message_text the handler does not suspend
\* after query.answer() returned.
CallbackPermission(chat, m, a) ==
    /\ app
    /\ cb.pc = "idle"
    /\ note[m] # "none"
    /\ IF ~Authorized(chat)
       THEN /\ last' = Handled("callback", chat, "Unauthorized")
            /\ UNCHANGED <<req, allowed, cb, accepted, note>>
       ELSE LET q == StateGet(pending, req[m].request_id) IN
            IF q = NoProc
            THEN /\ last' = Handled("callback", chat, "Expired")
                 /\ \E ok \in BOOLEAN :
                        note' = IF ok THEN [note EXCEPT ![m] = "Expired"] ELSE note
                 /\ UNCHANGED <<req, allowed, cb, accepted>>
            ELSE /\ req' = [req EXCEPT ![q] = RecordDecision(@, a)]
                 /\ allowed' = IF a = "allow_session" /\ req[q].session_id # NoSession
                               THEN AllowSession(allowed, req[q].session_id)
                               ELSE allowed
                 /\ cb' = [pc |-> "editing", msg |-> m, obj |-> q,
                           status |-> ActionStatus(a)]
                 /\ accepted' = [accepted EXCEPT ![q] = IF @ < 2 THEN @ + 1 ELSE @]
                 /\ last' = Handled("callback", chat, "Accepted")
                 /\ UNCHANGED note
    /\ UNCHANGED <<app, pending, pc, result, sessions, reply_targets,
                   dispatched, calls,
                   lock, co, probe, hook>>

\* telegram_bot.py:404-412: edit_message_text returned, the message shows the
\* outcome and has no buttons any more, and the waiting coroutine is signalled
CallbackEdited ==
    /\ cb.pc = "editing"
    /\ note' = [note EXCEPT ![cb.msg] = cb.status]
    /\ req' = [req EXCEPT ![cb.obj].event = TRUE]
    /\ cb' = NoCallback
    /\ UNCHANGED <<app, pending, pc, result, sessions, allowed, reply_targets,
                   dispatched, calls, accepted, last,
                   lock, co, probe, hook>>

\* telegram_bot.py:404-409: edit_message_text raised (the transport failed, or
\* Telegram refused the edit); the handler ends there, line 412 is not reached
CallbackEditFailed ==
    /\ cb.pc = "editing"
    /\ cb' = NoCallback
    /\ UNCHANGED <<app, pending, pc, req, result, note, sessions, allowed,
                   reply_targets, dispatched, calls, accepted, last,
                   lock, co, probe, hook>>

\* telegram_bot.py:359-376: callback data "reply:<session id>"
CallbackReply(chat, sid) ==
    /\ app
    /\ cb.pc = "idle"
    /\ IF ~Authorized(chat)
       THEN /\ last' = Handled("reply", chat, "Unauthorized")
            /\ UNCHANGED reply_targets
       ELSE IF ~SessionGet(sessions, sid)
       THEN /\ last' = Handled("reply", chat, "Session no longer exists")
            /\ UNCHANGED reply_targets
       ELSE /\ reply_targets' =
                [c \in (DOMAIN reply_targets) \cup {chat} |->
                    IF c = chat THEN sid ELSE reply_targets[c]]
            /\ last' = Handled("reply", chat, "Reply mode active")
    /\ UNCHANGED <<app, pending, pc, req, result, note, sessions, allowed, cb,
                   dispatched, calls, accepted,
                   lock, co, probe, hook>>

\* a del that leaves the reply target in place
DelReplyTargetKeeps(rt, chat) == rt

\* del self._reply_targets[chat_id]
DelReplyTarget(rt, chat) == [c \in (DOMAIN rt) \ {chat} |-> rt[c]]

\* telegram_bot.py:234-271: a text message that is not a command
TextMessage(chat, env) ==
    /\ app
    /\ cb.pc = "idle"
    /\ IF ~Authorized(chat)
       THEN /\ last' = Handled("text", chat, "Unauthorized")
            /\ UNCHANGED <<reply_targets, dispatched, calls>>
       ELSE IF chat \notin DOMAIN reply_targets
       THEN /\ last' = Handled("text", chat, "Tap Reply first")
            /\ UNCHANGED <<reply_targets, dispatched, calls>>
       ELSE LET sid == reply_targets[chat] IN
            IF ~SessionGet(sessions, sid)
            THEN /\ reply_targets' = DelReplyTarget(reply_targets, chat)
                 /\ last' = Handled("text", chat, "Session no longer exists")
                 /\ UNCHANGED <<dispatched, calls>>
            ELSE /\ calls' = SendInputCalls(sessions[sid], env)
                 /\ dispatched' = IF SendInputCalls(sessions[sid], env) # <<>>
                                  THEN dispatched \cup {sid} ELSE dispatched
                 /\ IF SendInput(sessions[sid], env)
                    THEN /\ reply_targets' = DelReplyTarget(reply_targets, chat)
                         /\ last' = Handled("text", chat, "Sent")
                    ELSE /\ UNCHANGED reply_targets
                         /\ last' = Handled("text", chat, "Failed")
    /\ UNCHANGED <<app, pending, pc, req, result, note, sessions, allowed, cb,
                   accepted,
                   lock, co, probe, hook>>

\* telegram_bot.py:222-232: /cancel
CmdCancel(chat) ==
    /\ app
    /\ cb.pc = "idle"
    /\ IF ~Authorized(chat)
       THEN /\ last' = Handled("cancel", chat, "Unauthorized")
            /\ UNCHANGED reply_targets
       ELSE IF chat \in DOMAIN reply_targets
       THEN /\ reply_targets' = DelReplyTarget(reply_targets, chat)
            /\ last' = Handled("cancel", chat, "Reply mode cancelled")
       ELSE /\ UNCHANGED reply_targets
            /\ last' = Handled("cancel", chat, "No active reply mode")
    /\ UNCHANGED <<app, pending, pc, req, result, note, sessions, allowed, cb,
                   dispatched, calls, accepted,
                   lock, co, probe, hook>>

\* telegram_bot.py:149-220: /start, /status, /pending and /sessions only read
CmdReadOnly(chat) ==
    /\ app
    /\ cb.pc = "idle"
    /\ last' = Handled("command", chat,
                       IF Authorized(chat) THEN "Shown" ELSE "Unauthorized")
    /\ UNCHANGED <<app, pending, pc, req, result, note, sessions, allowed,
                   reply_targets, cb, dispatched, calls, accepted,
                   lock, co, probe, hook>>


(* ------------------- sessions.py: the registry calls ------------------ *)
\* The keyword arguments the registry is called with here: a terminal and a
\* status, each possibly None.
KwargsInputs ==
    {[tty |-> t, status |-> st] :
        t \in {None, "/dev/ttys001"}, st \in {None, "processing", "ended"}}

\* The keyword arguments the handlers of the bot depend on: send_input reads
\* the terminal alone.
TtyInputs == {[tty |-> t] : t \in {None, "/dev/ttys001"}}

\* The statuses a call may supply: None, the empty string, and labels the
\* hook sends.
StatusInputs == {None, "", "processing", "waiting_for_input", "ended"}

\* The keyword arguments of daemon.py:96-103 (tty, cwd, pid, status,
\* last_tool) with the values the hook puts in its payload: cwd is "" when
\* the agent gave none (session_events.py:103).
HookInputs ==
    {[tty |-> t, cwd |-> c, pid |-> "4242", status |-> st, last_tool |-> "Bash"] :
        t \in {None, "/dev/ttys001"}, c \in {"", "/home/u/project"},
        st \in StatusInputs}

\* The keyword arguments of daemon.py:112, 116, 120: a status and possibly a
\* message (last_message=None is what a call without that keyword does).
StatusMessageInputs ==
    {[status |-> st, last_message |-> m] :
        st \in StatusInputs, m \in {None, "pick one"}}

\* The same shape with the statuses the listings of the registry tell apart.
RegistryInputs ==
    {[status |-> st, last_message |-> m] :
        st \in {None, "waiting_for_input", "ended"}, m \in {None, "pick one"}}

\* A call that has no status keyword at all.
MessageInputs == {[last_message |-> m] : m \in {None, "pick one"}}

\* The terminals send_input tells apart: None, the empty string, a device.
SendTtyInputs == {[tty |-> t] : t \in {None, "", "/dev/ttys001"}}

\* The environments the handlers of the bot tell apart: send_input returns
\* True or False.  Here there is no tmux and osascript sends or fails.
BotEnvs ==
    {e \in Envs : /\ ~e.tmux_path /\ e.panes = "none"
                  /\ e.text = "ok" /\ e.enter = "ok"
                  /\ e.osascript \in {"ok", "nonzero"}}

\* An awaited SessionManager.create_or_update(session_id, **kwargs)
CreateOrUpdate(sid, kw) ==
    /\ sessions' = CreateOrUpdateMap(sessions, sid, kw)
    /\ last' = Handled("create_or_update", sid, KwKind(kw))
    /\ UNCHANGED <<app, pending, pc, req, result, note, allowed, reply_targets,
                   cb, dispatched, calls, accepted,
                   lock, co, probe, hook>>

\* An awaited SessionManager.remove(session_id)
Remove(sid) ==
    /\ sessions' = SessionRemoveMap(sessions, sid)
    /\ allowed' = AllowedDiscard(allowed, sid)
    /\ last' = Handled("remove", sid, IF SessionGet(sessions, sid)
                                      THEN "Session removed" ELSE "no session")
    /\ UNCHANGED <<app, pending, pc, req, result, note, reply_targets, cb,
                   dispatched, calls, accepted,
                   lock, co, probe, hook>>

\* A call of SessionManager.allow_session(session_id)
MarkAllowAll(sid) ==
    /\ allowed' = AllowSession(allowed, sid)
    /\ last' = Handled("allow_session", sid, "marked")
    /\ UNCHANGED <<app, pending, pc, req, result, note, sessions,
                   reply_targets, cb, dispatched, calls, accepted,
                   lock, co, probe, hook>>

(* --------------------- daemon.py: session_event ----------------------- *)
EventKinds ==
    {"SessionStart", "PreToolUse", "PostToolUse", "Notification", "Stop",
     "SessionEnd"}

\* hooks/session_events.py:118-156: the status the hook puts in the payload
EventStatus(ev, idle) ==
    CASE ev = "SessionStart" -> "processing"
      [] ev = "Notification" -> IF idle THEN "waiting_for_input" ELSE "notification"
      [] ev = "Stop" -> "waiting_for_input"
      [] ev = "SessionEnd" -> "ended"
      [] ev = "PreToolUse" -> "running_tool"
      [] OTHER -> "processing"

\* daemon.py:96-103: create_or_update is a coroutine function and the call is
\* not awaited.  `session` is bound to a coroutine object whose body never
\* runs, so the registry is what it was.
UnawaitedCreateOrUpdate(sess, sid, kw) == sess

\* daemon.py:105-125 with `session` a coroutine object: session.update (lines
\* 112, 116, 120) and session.display_cwd (telegram_bot.py:280, reached when
\* bot.app is set) raise AttributeError; the other paths return status ok.
SessionEventOutcome(ev, idle, appset) ==
    CASE ev = "SessionStart" -> IF appset THEN "error" ELSE "ok"
      [] ev = "Notification" -> IF idle THEN "error" ELSE "ok"
      [] ev \in {"Stop", "SessionEnd"} -> "error"
      [] OTHER -> "ok"

\* POST /session
SessionEvent(sid, ev, idle) ==
    /\ sessions' = UnawaitedCreateOrUpdate(sessions, sid,
                        [tty |-> "/dev/ttys001", status |-> EventStatus(ev, idle)])
    /\ last' = Handled(ev, sid, SessionEventOutcome(ev, idle, app))
    /\ UNCHANGED <<app, pending, pc, req, result, note, allowed, reply_targets,
                   cb, dispatched, calls, accepted,
                   lock, co, probe, hook>>

(* ------------- sessions.py: concurrent create_or_update --------------- *)
\* The keyword arguments two racing calls differ in: a terminal and a working
\* directory, each None, and the directory also "" as the hook sends it.
ConcurrentInputs ==
    {[tty |-> t, cwd |-> c] :
        t \in {None, "/dev/ttys001"}, c \in {None, "", "/home/u/project"}}

\* a lock any caller may take at any time
LockFreeAlways(l) == TRUE

\* asyncio.Lock.locked() is False
LockFree(l) == l = NoCaller

\* sessions.py:215: create_or_update(session_id, **kwargs) is awaited.  Call
\* slots are interchangeable; slot c is used once the slots below it are.
CoCall(c, sid, kw) ==
    /\ co[c].pc = "idle"
    /\ \A d \in Callers : d < c => co[d].pc # "idle"
    /\ co' = [co EXCEPT ![c] = [pc |-> "acquire", sid |-> sid, kw |-> kw,
                                found |-> FALSE]]
    /\ UNCHANGED <<app, pending, pc, req, result, note, sessions, allowed,
                   reply_targets, cb, dispatched, calls, accepted, last,
                   lock, probe, hook>>

\* sessions.py:217: `async with self._lock` takes the lock once it is free
CoAcquire(c) ==
    /\ co[c].pc = "acquire"
    /\ LockFree(lock)
    /\ lock' = c
    /\ co' = [co EXCEPT ![c].pc = "check"]
    /\ UNCHANGED <<app, pending, pc, req, result, note, sessions, allowed,
                   reply_targets, cb, dispatched, calls, accepted, last,
                   probe, hook>>

\* sessions.py:218: `if session_id in self._sessions`
CoCheck(c) ==
    /\ co[c].pc = "check"
    /\ co' = [co EXCEPT ![c].pc = "write",
                        ![c].found = SessionGet(sessions, co[c].sid)]
    /\ UNCHANGED <<app, pending, pc, req, result, note, sessions, allowed,
                   reply_targets, cb, dispatched, calls, accepted, last,
                   lock, probe, hook>>

\* sessions.py:219-223: the branch taken on that test, session.update on the
\* session found or a new Session stored under the id
CoWrite(c) ==
    /\ co[c].pc = "write"
    /\ sessions' =
          [s \in (DOMAIN sessions) \cup {co[c].sid} |->
              IF s # co[c].sid THEN sessions[s]
              ELSE IF co[c].found /\ SessionGet(sessions, s)
              THEN SessionUpdate(sessions[s], co[c].kw)
              ELSE NewSession(co[c].kw)]
    /\ co' = [co EXCEPT ![c].pc = "release"]
    /\ UNCHANGED <<app, pending, pc, req, result, note, allowed,
                   reply_targets, cb, dispatched, calls, accepted, last,
                   lock, probe, hook>>

\* sessions.py:225 and the exit of the `async with`: the lock is released and
\* the session returned
CoRelease(c) ==
    /\ co[c].pc = "release"
    /\ lock' = IF lock = c THEN NoCaller ELSE lock
    /\ co' = [co EXCEPT ![c].pc = "done"]
    /\ last' = Handled("create_or_update", co[c].sid, KwKind(co[c].kw))
    /\ UNCHANGED <<app, pending, pc, req, result, note, sessions, allowed,
                   reply_targets, cb, dispatched, calls, accepted,
                   probe, hook>>

(* -------------- sessions.py: the choice of a tmux target -------------- *)
\* Device and session names are sequences of characters here, so that
\* Python's `in` between strings is the substring test it is.
DevPts == <<"/", "d", "e", "v", "/", "p", "t", "s", "/">>
TtyDevices == {DevPts \o <<"1">>, DevPts \o <<"1", "0">>, DevPts \o <<"2">>}
Claude == <<"c", "l", "a", "u", "d", "e">>
SessionNames == {Claude, <<"m", "y">> \o Claude, <<"w", "o", "r", "k">>}

\* a pane as tmux knows it, and the listings of at most MaxPanes panes; tmux
\* gives each pane a terminal of its own
Panes == [pane_tty : TtyDevices, session_name : SessionNames]
Listings ==
    {l \in UNION {[1..n -> Panes] : n \in 0..MaxPanes} :
        \A i, j \in DOMAIN l : l[i].pane_tty = l[j].pane_tty => i = j}

\* sessions.py:78, the line tmux prints for a pane under the format
\* '#{pane_tty} #{session_name}:#{window_index}.#{pane_index}'
PaneLine(p) ==
    p.pane_tty \o <<" ">> \o p.session_name \o <<":", "0", ".", "0">>

\* Python's `sub in s` for strings
Contains(s, sub) ==
    \E i \in 0..(Len(s) - Len(sub)) : SubSeq(s, i + 1, i + Len(sub)) = sub

\* line.split(' ', 1)[1]: what follows the first space
AfterFirstSpace(s) ==
    LET i == CHOOSE k \in DOMAIN s :
                 s[k] = " " /\ \A j \in 1..(k - 1) : s[j] # " "
    IN SubSeq(s, i + 1, Len(s))

\* the first line of the listing that contains sub, 0 when none does
\* (the for loops with break at sessions.py:86-91 and 95-101)
FirstLineWith(listing, sub) ==
    LET hits == {i \in DOMAIN listing : Contains(PaneLine(listing[i]), sub)}
    IN IF hits = {} THEN 0
       ELSE CHOOSE i \in hits : \A j \in hits : i <= j

\* sessions.py:84-101: the line whose target is taken, by tty first and by
\* 'claude:' when no line was found by tty
TargetLine(tty, listing) ==
    IF FirstLineWith(listing, tty) # 0 THEN FirstLineWith(listing, tty)
    ELSE FirstLineWith(listing, Claude \o <<":">>)

\* sessions.py:77-101: list-panes returned 0 with this listing for a session
\* of this tty
ChooseTarget(tty, listing) ==
    /\ probe' = [tty |-> tty, listing |-> listing,
                 line |-> TargetLine(tty, listing),
                 tmux_target |->
                    IF TargetLine(tty, listing) = 0 THEN <<>>
                    ELSE AfterFirstSpace(PaneLine(listing[TargetLine(tty, listing)]))]
    /\ UNCHANGED <<app, pending, pc, req, result, note, sessions, allowed,
                   reply_targets, cb, dispatched, calls, accepted, last,
                   lock, co, hook>>

(* ------------------- permission_request.py: main ---------------------- *)
\* permission_request.py:22-45: stdin is read.  Text that is not JSON is
\* answered deny; JSON of another shape raises where nothing catches it and
\* the process ends with status 1, having printed nothing.
HookRead(h, kind) ==
    /\ hook[h].pc = "start"
    /\ hook' = [hook EXCEPT ![h] =
          CASE kind = "not json" ->
                  [pc |-> "exited", stdin |-> kind, answer |-> NoAnswer,
                   out |-> "deny", message |-> "Failed to parse hook input",
                   exit |-> "0"]
            [] kind = "malformed" ->
                  [pc |-> "exited", stdin |-> kind, answer |-> NoAnswer,
                   out |-> "none", message |-> None, exit |-> "1"]
            [] OTHER ->
                  [pc |-> "posting", stdin |-> kind, answer |-> NoAnswer,
                   out |-> "none", message |-> None, exit |-> "running"]]
    /\ UNCHANGED <<app, pending, pc, req, result, note, sessions, allowed,
                   reply_targets, cb, dispatched, calls, accepted, last,
                   lock, co, probe>>

\* permission_request.py:47-84: the POST to /permission ended
HookAnswer(h, ans) ==
    /\ hook[h].pc = "posting"
    /\ hook' = [hook EXCEPT ![h] =
          [pc |-> "exited", stdin |-> hook[h].stdin, answer |-> ans,
           out |-> HookDecision(ans).out, message |-> HookDecision(ans).message,
           exit |-> "0"]]
    /\ UNCHANGED <<app, pending, pc, req, result, note, sessions, allowed,
                   reply_targets, cb, dispatched, calls, accepted, last,
                   lock, co, probe>>

(* ------------------------------- Next --------------------------------- *)
\* The permission broker: the request_permission calls and the permission
\* buttons pressed in the configured chat.  The handlers left out of it leave
\* pending, pc, req, result, note, accepted and cb as they are.
Next ==
    \/ Initialize
    \/ \E p \in Procs, rid \in RequestIds, sid \in SessionIds \cup {NoSession} :
            Submit(p, rid, sid)
    \/ \E p \in Procs : SendDelivered(p)
    \/ \E p \in Procs : SendFailed(p)
    \/ \E p \in Procs : WaitReturn(p)
    \/ \E p \in Procs : Timeout(p)
    \/ \E p \in Procs : UpdateDone(p)
    \/ \E p \in Procs : UpdateFailed(p)
    \/ \E m \in Procs, a \in Actions : CallbackPermission(TelegramChatId, m, a)
    \/ CallbackEdited
    \/ CallbackEditFailed

Spec == Init /\ [][Next]_vars

\* The Telegram handlers over the registry, with one permission request (call
\* slot 1, request id 1) for the buttons to decide.
NextBot ==
    \/ Initialize
    \/ \E sid \in SessionIds \cup {NoSession} : Submit(1, 1, sid)
    \/ SendDelivered(1)
    \/ SendFailed(1)
    \/ WaitReturn(1)
    \/ Timeout(1)
    \/ UpdateDone(1)
    \/ UpdateFailed(1)
    \/ \E chat \in Chats, a \in Actions : CallbackPermission(chat, 1, a)
    \/ CallbackEdited
    \/ CallbackEditFailed
    \/ \E chat \in Chats, sid \in SessionIds : CallbackReply(chat, sid)
    \/ \E chat \in Chats, env \in BotEnvs : TextMessage(chat, env)
    \/ \E chat \in Chats : CmdCancel(chat)
    \/ \E chat \in Chats : CmdReadOnly(chat)
    \/ \E sid \in SessionIds, kw \in TtyInputs : CreateOrUpdate(sid, kw)
    \/ \E sid \in SessionIds : Remove(sid)

SpecBot == Init /\ [][NextBot]_vars

\* The session events over the registry.
NextSessions ==
    \/ Initialize
    \/ \E sid \in SessionIds, kw \in KwargsInputs : CreateOrUpdate(sid, kw)
    \/ \E sid \in SessionIds : Remove(sid)
    \/ \E sid \in SessionIds, ev \in EventKinds, idle \in BOOLEAN :
            SessionEvent(sid, ev, idle)
    \/ \E sid \in SessionIds : MarkAllowAll(sid)

SpecSessions == Init /\ [][NextSessions]_vars

\* The permission hook processes, each with its input and its answer.
NextHook ==
    \/ \E h \in Hooks, kind \in StdinKinds : HookRead(h, kind)
    \/ \E h \in Hooks, ans \in Answers \cup Failures : HookAnswer(h, ans)

SpecHook == Init /\ [][NextHook]_vars

\* The choice of a tmux target for every session tty and listing.
NextPanes ==
    \E tty \in TtyDevices, listing \in Listings : ChooseTarget(tty, listing)

SpecPanes == Init /\ [][NextPanes]_vars

\* create_or_update calls in flight at the same time.
NextConcurrent ==
    \/ \E c \in Callers, sid \in SessionIds, kw \in ConcurrentInputs :
            CoCall(c, sid, kw)
    \/ \E c \in Callers : CoAcquire(c)
    \/ \E c \in Callers : CoCheck(c)
    \/ \E c \in Callers : CoWrite(c)
    \/ \E c \in Callers : CoRelease(c)

SpecConcurrent == Init /\ [][NextConcurrent]_vars

\* Text sent to a session from the configured chat, under every environment
\* of send_input.
NextSend ==
    \/ Initialize
    \/ \E sid \in SessionIds, kw \in SendTtyInputs : CreateOrUpdate(sid, kw)
    \/ \E sid \in SessionIds : Remove(sid)
    \/ \E sid \in SessionIds : CallbackReply(TelegramChatId, sid)
    \/ \E env \in Envs : TextMessage(TelegramChatId, env)
    \/ CmdCancel(TelegramChatId)

SpecSend == Init /\ [][NextSend]_vars

\* The fields of a session under every shape of create_or_update call.
NextFields ==
    \/ \E sid \in SessionIds, kw \in HookInputs : CreateOrUpdate(sid, kw)
    \/ \E sid \in SessionIds, kw \in StatusMessageInputs : CreateOrUpdate(sid, kw)
    \/ \E sid \in SessionIds, kw \in MessageInputs : CreateOrUpdate(sid, kw)
    \/ \E sid \in SessionIds : Remove(sid)

SpecFields == Init /\ [][NextFields]_vars

\* The registry as a collection: several sessions, their statuses and their
\* allow-all markers.
NextRegistry ==
    \/ \E sid \in RegistryIds, kw \in RegistryInputs : CreateOrUpdate(sid, kw)
    \/ \E sid \in RegistryIds, kw \in MessageInputs : CreateOrUpdate(sid, kw)
    \/ \E sid \in RegistryIds : Remove(sid)
    \/ \E sid \in RegistryIds : MarkAllowAll(sid)

SpecRegistry == Init /\ [][NextRegistry]_vars


(* ============================== claims ================================ *)
Done(p) == pc[p] = "done"
Returns(p) == pc[p] # "done" /\ pc'[p] = "done"

\* C1, as stated: a call on whose request no callback recorded a decision
\* returns deny with the reason "timeout".
C1_AsStated ==
    \A p \in Procs :
        Done(p) /\ accepted[p] = 0 =>
            result[p] = [decision |-> "deny", reason |-> "timeout"]

\* C1, amended: a call on whose request no callback recorded a decision
\* returns, as an ordinary response, deny with the reason
\* "Timeout - no response received".
C1_TimeoutDenies ==
    \A p \in Procs :
        Done(p) /\ accepted[p] = 0 =>
            result[p] = [decision |-> "deny", reason |-> TimeoutReason]

\* a request whose notification was delivered, that nobody answered, returned
C1_Witness ==
    \E p \in Procs :
        /\ Done(p) /\ accepted[p] = 0
        /\ req[p].message_id # None
        /\ note[p] = "Timeout"

\* C2: at most one decision callback records a decision on a request.
C2_AtMostOneAccepted == \A p \in Procs : accepted[p] <= 1

\* C3: once a decision is recorded on the request of a call that is blocked in
\* its wait, the call does not take the timeout outcome, and when it returns
\* it returns the recorded decision and reason.
C3_ReturnsRecorded ==
    [][\A p \in Procs :
          pc[p] = "waiting" /\ accepted[p] > 0 =>
              /\ pc'[p] # "updating"
              /\ pc'[p] = "done" =>
                    /\ result'[p].decision = req[p].decision
                    /\ result'[p].reason = req[p].reason]_vars

\* C4: once a call has taken the timeout outcome, no callback records a
\* decision on its request, marks a session allow-all for it or rewrites its
\* notification as allowed or denied.
C4_NoLateDecision ==
    [][\A p \in Procs :
          pc[p] \in {"updating", "done"} =>
              /\ req'[p] = req[p]
              /\ accepted'[p] = accepted[p]
              /\ note'[p] \notin {"Allowed", "Allowed (all session)", "Denied"}
                    \/ note'[p] = note[p]]_vars

\* C5: a call submitted for a session that is allow-all returns allow at once,
\* without sending a notification and without waiting.
C5_AllowAllShortCircuits ==
    [][\A p \in Procs, rid \in RequestIds, sid \in SessionIds :
          Submit(p, rid, sid) /\ IsSessionAllowed(allowed, sid) =>
              /\ pc'[p] = "done"
              /\ result'[p].decision = "allow"
              /\ note'[p] = "none"]_vars

\* C6: submitting a request id that is live leaves the live entry as it was:
\* no step replaces the object a live request id maps to.
C6_LiveEntryNotReplaced ==
    [][\A r \in DOMAIN pending :
          r \in DOMAIN pending' => pending'[r] = pending[r]]_vars

\* C7: in the step in which a call returns, its request id leaves the pending
\* set, and an id leaves the pending set only in a step in which a call that
\* carries it returns (never in a step of the callback handler).
C7_RemovedOnReturn ==
    [][/\ \A p \in Procs :
            Returns(p) => StateGet(pending', req[p].request_id) = NoProc
       /\ \A r \in (DOMAIN pending) \ (DOMAIN pending') :
            \E p \in Procs : Returns(p) /\ req[p].request_id = r]_vars

\* calls have returned with an allow and with a deny or a timeout, and the id
\* of the latter is out of the pending set
C7_Witness ==
    /\ \E p \in Procs : Done(p) /\ result[p].decision = "allow"
    /\ \E p \in Procs :
          /\ Done(p)
          /\ result[p].reason \in {DeniedReason, TimeoutReason}
          /\ req[p].request_id \notin DOMAIN pending

\* C8: a call whose notification was never delivered returns deny.
C8_UndeliveredDenies ==
    \A p \in Procs : Done(p) /\ note[p] = "none" => result[p].decision = "deny"

BotKinds == {"callback", "reply", "text", "cancel", "command"}

\* C9: handling an update from a chat other than the configured one changes no
\* pending request, no allow-all marker, no reply target, no session, and
\* dispatches no text.
C9_UnauthorizedChangesNothing ==
    [][(last' # last /\ last'.kind \in BotKinds /\ last'.who # TelegramChatId)
          => UNCHANGED <<pending, pc, req, result, note, sessions, allowed,
                         reply_targets, cb, dispatched, calls, accepted,
                         lock, co, probe, hook>>]_vars

\* an update of a foreign chat was turned away while a request was pending, a
\* session registered and reply mode active
C9_Witness ==
    /\ last.kind \in BotKinds
    /\ last.who # TelegramChatId
    /\ last.out = "Unauthorized"
    /\ DOMAIN pending # {}
    /\ DOMAIN sessions # {}
    /\ TelegramChatId \in DOMAIN reply_targets

\* C10: after a session event for session s was handled, the registry holds s
\* with the status the event carries.
C10_EventRegistersSession ==
    [][\A sid \in SessionIds, ev \in EventKinds, idle \in BOOLEAN :
          SessionEvent(sid, ev, idle) =>
              /\ SessionGet(sessions', sid)
              /\ sessions'[sid].status = EventStatus(ev, idle)]_vars

\* the fields of a session other than its status
OtherFields == Fields \ {"status"}

\* C11: a create_or_update call on a registered session that supplies a status
\* and nothing else leaves its cwd, tty, pid, last_message and last_tool as
\* they were.
C11_StatusOnlyKeepsFields ==
    [][\A sid \in SessionIds, kw \in StatusMessageInputs :
          /\ CreateOrUpdate(sid, kw)
          /\ SessionGet(sessions, sid)
          /\ Supplied(kw) \subseteq {"status"}
          => \A f \in OtherFields : sessions'[sid][f] = sessions[sid][f]]_vars

\* a session with every field recorded took a status-only update
C11_Witness ==
    /\ last.kind = "create_or_update" /\ last.out = "status only"
    /\ SessionGet(sessions, last.who)
    /\ \A f \in OtherFields : sessions[last.who][f] \notin {None, ""}
    /\ sessions[last.who].status = "waiting_for_input"

\* a value that counts as empty: absent or None, or the empty string
Empty(v) == v \in {None, ""}
SuppliedEmpty(kw, f) == f \notin DOMAIN kw \/ Empty(kw[f])

\* the effect C12 asks of one call: a field supplied empty keeps its recorded
\* non-empty value
KeepsNonEmpty(sid, kw) ==
    CreateOrUpdate(sid, kw) /\ SessionGet(sessions, sid) =>
        \A f \in Fields :
            SuppliedEmpty(kw, f) /\ ~Empty(sessions[sid][f]) =>
                sessions'[sid][f] = sessions[sid][f]

\* C12: in create_or_update a field supplied as empty (absent, None or the
\* empty string) never replaces a recorded non-empty value.
C12_EmptyNeverBlanks ==
    [][\A sid \in SessionIds :
          /\ \A kw \in HookInputs : KeepsNonEmpty(sid, kw)
          /\ \A kw \in StatusMessageInputs : KeepsNonEmpty(sid, kw)
          /\ \A kw \in MessageInputs : KeepsNonEmpty(sid, kw)]_vars

\* the statuses the specification defines
StatusEnum ==
    {"unknown", "processing", "running_tool", "waiting_for_input",
     "compacting", "ended"}

\* C13: the status of every registered session is one of the defined values
\* (a session created without a status, or with one that is not defined, has
\* status unknown).
C13_StatusInEnum ==
    \A s \in DOMAIN sessions : sessions[s].status \in StatusEnum

\* what C14 asks of a create_or_update call on sid: a supplied status decides
\* whether sid is active, a call without one leaves that as it was (a session
\* that is new is active)
ActiveAfterCall(sid, kw) ==
    CreateOrUpdate(sid, kw) =>
        IF "status" \in Supplied(kw)
        THEN (sid \in SessionActive(sessions')) = (kw.status # "ended")
        ELSE (sid \in SessionActive(sessions')) =
                (sid \in SessionActive(sessions) \/ ~SessionGet(sessions, sid))

\* C14: after every registry operation active() holds exactly the registered
\* sessions whose latest recorded status is not ended, and count() is its size.
C14_ActiveExcludesEnded ==
    [][/\ SessionActive(sessions') \subseteq DOMAIN sessions'
       /\ SessionCount(sessions') = Cardinality(SessionActive(sessions'))
       /\ \A sid \in RegistryIds :
            IF sid = last'.who
            THEN /\ \A kw \in RegistryInputs : ActiveAfterCall(sid, kw)
                 /\ \A kw \in MessageInputs : ActiveAfterCall(sid, kw)
                 /\ Remove(sid) => sid \notin SessionActive(sessions')
            ELSE (sid \in SessionActive(sessions')) = (sid \in SessionActive(sessions))
      ]_vars

\* one session was just recorded as ended while another is active, and the
\* count is one
C14_Witness ==
    /\ last.kind = "create_or_update"
    /\ SessionGet(sessions, last.who)
    /\ sessions[last.who].status = "ended"
    /\ \E t \in DOMAIN sessions : t # last.who /\ t \in SessionActive(sessions)
    /\ SessionCount(sessions) = 1

\* what C15 asks of a create_or_update call on sid: a supplied status decides
\* whether sid is listed as waiting, a call without one leaves that as it was
\* (a session that is new is not waiting), and a supplied message is the one
\* recorded
WaitingAfterCall(sid, kw) ==
    CreateOrUpdate(sid, kw) =>
        /\ IF "status" \in Supplied(kw)
           THEN (sid \in SessionWaitingForInput(sessions')) =
                    (kw.status = "waiting_for_input")
           ELSE (sid \in SessionWaitingForInput(sessions')) =
                    (sid \in SessionWaitingForInput(sessions))
        /\ "last_message" \in Supplied(kw) =>
                sessions'[sid].last_message = kw.last_message

\* C15: after create_or_update(s, status=waiting_for_input, last_message=m)
\* waiting_for_input() lists s with last_message m, and it lists exactly the
\* registered sessions whose status is waiting_for_input.
C15_WaitingForInputListed ==
    [][/\ SessionWaitingForInput(sessions') \subseteq DOMAIN sessions'
       /\ \A sid \in RegistryIds :
            IF sid = last'.who
            THEN /\ \A kw \in RegistryInputs : WaitingAfterCall(sid, kw)
                 /\ \A kw \in MessageInputs : WaitingAfterCall(sid, kw)
                 /\ Remove(sid) => sid \notin SessionWaitingForInput(sessions')
            ELSE (sid \in SessionWaitingForInput(sessions')) =
                    (sid \in SessionWaitingForInput(sessions))
      ]_vars

\* the session just updated is the one session listed as waiting, with the
\* message of the call, next to another registered session
C15_Witness ==
    /\ last.kind = "create_or_update" /\ last.out = "status and fields"
    /\ SessionWaitingForInput(sessions) = {last.who}
    /\ sessions[last.who].last_message = "pick one"
    /\ \E t \in DOMAIN sessions : t # last.who

\* what C16 asks of one call: a supplied non-empty status is the status
\* afterwards, whatever it was before, and a call that supplies none (absent,
\* None or the empty string) leaves the recorded status in place
LastWriteWins(sid, kw) ==
    CreateOrUpdate(sid, kw) =>
        IF SuppliedEmpty(kw, "status")
        THEN SessionGet(sessions, sid) =>
                sessions'[sid].status = sessions[sid].status
        ELSE sessions'[sid].status = kw.status

\* C16: the registry is last-write-wins with no legality check: the status of
\* a session is the last non-empty status a create_or_update call supplied,
\* from any prior status, ended included.
C16_LastStatusWins ==
    [][\A sid \in SessionIds :
          /\ \A kw \in HookInputs : LastWriteWins(sid, kw)
          /\ \A kw \in StatusMessageInputs : LastWriteWins(sid, kw)
          /\ \A kw \in MessageInputs : LastWriteWins(sid, kw)]_vars

\* the part of C16 that does not involve an empty string: a supplied label is
\* the status afterwards, and None or no keyword keeps the recorded one
C16_LabelsOnly ==
    [][\A sid \in SessionIds :
          \A kw \in StatusMessageInputs :
              kw.status # "" => LastWriteWins(sid, kw)]_vars

\* C17: after remove(s), get(s) returns nothing and s is not allow-all,
\* whether or not s was registered or marked; no other session and no other
\* marker changes.
C17_RemoveDeletesSessionAndMarker ==
    [][\A sid \in RegistryIds :
          Remove(sid) =>
              /\ ~SessionGet(sessions', sid)
              /\ ~IsSessionAllowed(allowed', sid)
              /\ \A t \in RegistryIds \ {sid} :
                    /\ SessionGet(sessions', t) = SessionGet(sessions, t)
                    /\ SessionGet(sessions, t) => sessions'[t] = sessions[t]
                    /\ IsSessionAllowed(allowed', t) = IsSessionAllowed(allowed, t)
      ]_vars

\* a registered session was removed and is neither registered nor allow-all,
\* while another session is still registered and allow-all
C17_Witness ==
    /\ last.kind = "remove" /\ last.out = "Session removed"
    /\ ~SessionGet(sessions, last.who)
    /\ ~IsSessionAllowed(allowed, last.who)
    /\ \E t \in RegistryIds :
          t # last.who /\ SessionGet(sessions, t) /\ IsSessionAllowed(allowed, t)

\* C18: no session event removes a session or an allow-all marker, and after
\* an event that carries status ended the session is registered with status
\* ended.
C18_EndedStaysRegistered ==
    [][\A sid \in SessionIds, ev \in EventKinds, idle \in BOOLEAN :
          SessionEvent(sid, ev, idle) =>
              /\ DOMAIN sessions \subseteq DOMAIN sessions'
              /\ allowed \subseteq allowed'
              /\ EventStatus(ev, idle) = "ended" =>
                    /\ SessionGet(sessions', sid)
                    /\ sessions'[sid].status = "ended"]_vars

\* the part of C18 that is about removal alone: a session event takes no
\* session and no allow-all marker out of the registry
C18_NoEventRemoves ==
    [][\A sid \in SessionIds, ev \in EventKinds, idle \in BOOLEAN :
          SessionEvent(sid, ev, idle) =>
              /\ DOMAIN sessions \subseteq DOMAIN sessions'
              /\ allowed \subseteq allowed']_vars

\* the allow_session button was accepted on the request of call p: its
\* handler is editing the notification, or has edited it
AllowSessionAccepted(p) ==
    \/ cb.pc = "editing" /\ cb.obj = p /\ cb.status = "Allowed (all session)"
    \/ note[p] = "Allowed (all session)"

\* the effect of the buttons on the allow-all set: an accepted allow_session
\* records allow on the request and marks its session, allow and deny leave
\* the set as it is, and a marker goes only in a remove of its session
MarksAllowAll ==
    /\ \A chat \in Chats, a \in Actions :
          CallbackPermission(chat, 1, a) /\ last'.out = "Accepted" =>
              IF a = "allow_session"
              THEN /\ req'[1].decision = "allow"
                   /\ req[1].session_id # NoSession =>
                         IsSessionAllowed(allowed', req[1].session_id)
                   /\ allowed \subseteq allowed'
              ELSE allowed' = allowed
    /\ \A s \in allowed \ allowed' : Remove(s)

\* C19: an accepted allow_session decision on a request of session s resolves
\* the request as allow (the call returns allow) and marks s allow-all until
\* remove(s); allow and deny decisions never change the allow-all set.
C19_AllowSessionResolvesAndMarks ==
    [][/\ MarksAllowAll
       /\ \A p \in Procs :
            Returns(p) /\ AllowSessionAccepted(p) =>
                result'[p].decision = "allow"]_vars

\* the part of C19 that is about the allow-all set alone
C19_MarksOnly == [][MarksAllowAll]_vars

\* the session a text message from the configured chat goes to has no tty
TargetHasNoTty ==
    /\ TelegramChatId \in DOMAIN reply_targets
    /\ SessionGet(sessions, reply_targets[TelegramChatId])
    /\ sessions[reply_targets[TelegramChatId]].tty \in {None, ""}

\* C20: send_input on a session whose tty is not set returns False at once and
\* makes no external call, whatever the environment; a text message for such
\* a session is answered Failed and nothing is dispatched.
C20_NoTtyFailsWithoutCalls ==
    [][TargetHasNoTty =>
          /\ \A env \in Envs :
                /\ ~SendInput(sessions[reply_targets[TelegramChatId]], env)
                /\ SendInputCalls(sessions[reply_targets[TelegramChatId]], env) = <<>>
          /\ (last'.kind = "text" /\ last'.who = TelegramChatId) =>
                /\ last'.out = "Failed"
                /\ calls' = <<>>
                /\ dispatched' = dispatched]_vars

\* a text message for a session without a tty was answered Failed and no
\* call was made, after an earlier text had been sent with calls
C20_Witness ==
    /\ last = Handled("text", TelegramChatId, "Failed")
    /\ TargetHasNoTty
    /\ calls = <<>>
    /\ dispatched # {}

\* the place of each external call in the fixed order of the strategies
CallRank(name) ==
    CASE name = "tmux list-panes" -> 1
      [] name = "tmux send-keys text" -> 2
      [] name = "tmux send-keys Enter" -> 3
      [] name = "osascript" -> 4

\* what a recorded run says of its strategies
Made(c, name) == \E i \in DOMAIN c : c[i].call = name
MadeOk(c, name) == \E i \in DOMAIN c : c[i].call = name /\ c[i].out = "ok"
TmuxSucceeded(c) ==
    MadeOk(c, "tmux send-keys text") /\ MadeOk(c, "tmux send-keys Enter")
OsascriptSucceeded(c) == MadeOk(c, "osascript")

\* a text message of the configured chat reached send_input
TextWasSent == last.kind = "text" /\ last.out \in {"Sent", "Failed"}

\* C21: send_input tries its strategies in the fixed order, tmux first and
\* osascript second, and stops at the first success: osascript is called only
\* after tmux failed or was unavailable, nothing is called after a success,
\* and the outcome is that of the strategy that ended the run.
C21_OrderedStopAtFirstSuccess ==
    /\ \A i, j \in DOMAIN calls :
          i < j => CallRank(calls[i].call) < CallRank(calls[j].call)
    /\ TmuxSucceeded(calls) => ~Made(calls, "osascript")
    /\ TextWasSent =>
          /\ (calls # <<>> /\ ~TmuxSucceeded(calls)) => Made(calls, "osascript")
          /\ (last.out = "Sent") = (TmuxSucceeded(calls) \/ OsascriptSucceeded(calls))

\* tmux sent the text but not Enter, osascript was tried next and sent
C21_Witness ==
    /\ last = Handled("text", TelegramChatId, "Sent")
    /\ Len(calls) = 4
    /\ MadeOk(calls, "tmux send-keys text")
    /\ ~MadeOk(calls, "tmux send-keys Enter")
    /\ OsascriptSucceeded(calls)

\* the first two strategies of a recorded run failed
BothFailed(c) == c # <<>> /\ ~TmuxSucceeded(c) /\ ~OsascriptSucceeded(c)

\* C22, as stated: when tmux and osascript both fail, send_input goes on to a
\* third strategy, a write to the terminal device.
C22_AsStated ==
    TextWasSent /\ BothFailed(calls) => Made(calls, "device write")

\* C22, amended: send_input has two strategies.  When tmux fails osascript is
\* attempted, it is the last call, and its success is the returned outcome;
\* when both fail send_input returns False without a further attempt.
C22_SecondIsLast ==
    (TextWasSent /\ calls # <<>> /\ ~TmuxSucceeded(calls)) =>
        /\ calls[Len(calls)].call = "osascript"
        /\ (last.out = "Sent") = (calls[Len(calls)].out = "ok")
        /\ ~Made(calls, "device write")

\* tmux failed at Enter, osascript found no iTerm2 session, and the text
\* message was answered Failed after those four calls
C22_Witness ==
    /\ last = Handled("text", TelegramChatId, "Failed")
    /\ Len(calls) = 4
    /\ BothFailed(calls)
    /\ calls[4] = Call("osascript", "not found")

\* C23: when osascript is the strategy that delivered the text, the outcome
\* shown to the operator is a qualified success, not the "Sent" of a tmux
\* delivery.
C23_QualifiedSuccess ==
    (TextWasSent /\ OsascriptSucceeded(calls)) => last.out # "Sent"

\* how the list-panes call of a recorded run ended, "not made" without one
PanesOutcome(c) ==
    IF Made(c, "tmux list-panes") THEN c[1].out ELSE "not made"

\* C24: the tmux method ends send_input with success only if the send of the
\* literal text and the separate send of Enter both succeeded; when either
\* failed or raised, when no pane was found, when list-panes failed or raised
\* and when tmux is not installed, send_input goes on to osascript.
C24_TmuxNeedsBothSends ==
    (TextWasSent /\ calls # <<>>) =>
        /\ ~Made(calls, "osascript") <=>
              (/\ MadeOk(calls, "tmux send-keys text")
               /\ MadeOk(calls, "tmux send-keys Enter"))
        /\ PanesOutcome(calls) \in {"not made", "raise", "nonzero", "none"} =>
              calls[Len(calls)].call = "osascript"
        /\ \A i \in DOMAIN calls :
              (calls[i].call # "osascript" /\ calls[i].out \in {"nonzero", "raise"})
                  => calls[Len(calls)].call = "osascript"

\* the text send returned non-zero, the Enter send succeeded, and send_input
\* went on to osascript
C24_Witness ==
    /\ TextWasSent
    /\ Len(calls) = 4
    /\ calls[2] = Call("tmux send-keys text", "nonzero")
    /\ calls[3] = Call("tmux send-keys Enter", "ok")
    /\ calls[4].call = "osascript"

\* C28: send_input is called for the operator's text only while the chat has
\* a reply target and that session is in the registry; the reply target goes
\* away only by a successful send, by /cancel or by a text message that finds
\* the session gone, and it does go away then; a failed send keeps it, is
\* answered Failed, and made each external call at most once.
C28_ReplyMode ==
    [][LET chat == TelegramChatId IN
       /\ (calls' # calls \/ dispatched' # dispatched) =>
             /\ chat \in DOMAIN reply_targets
             /\ SessionGet(sessions, reply_targets[chat])
             /\ last'.kind = "text" /\ last'.out \in {"Sent", "Failed"}
             /\ dispatched' \subseteq dispatched \cup {reply_targets[chat]}
       /\ (chat \in DOMAIN reply_targets /\ chat \notin DOMAIN reply_targets') =>
             last' \in {Handled("text", chat, "Sent"),
                        Handled("cancel", chat, "Reply mode cancelled"),
                        Handled("text", chat, "Session no longer exists")}
       /\ last' \in {Handled("text", chat, "Sent"),
                     Handled("cancel", chat, "Reply mode cancelled"),
                     Handled("text", chat, "Session no longer exists")} =>
             chat \notin DOMAIN reply_targets'
       /\ last' = Handled("text", chat, "Failed") =>
             /\ chat \in DOMAIN reply_targets
             /\ reply_targets' = reply_targets
             /\ \A i, j \in DOMAIN calls' :
                   calls'[i].call = calls'[j].call => i = j]_vars

\* a send that failed at both strategies left the chat in reply mode for a
\* session that is still registered
C28_Witness ==
    /\ last = Handled("text", TelegramChatId, "Failed")
    /\ BothFailed(calls)
    /\ TelegramChatId \in DOMAIN reply_targets
    /\ SessionGet(sessions, reply_targets[TelegramChatId])

\* C29: one send_input writes the text at most once, so osascript does not
\* write it after the tmux text send succeeded, and Enter is sent only after
\* a text send that succeeded.
C29_TextWrittenOnce ==
    TextWasSent =>
        /\ ~(MadeOk(calls, "tmux send-keys text") /\ OsascriptSucceeded(calls))
        /\ Made(calls, "tmux send-keys Enter") =>
              MadeOk(calls, "tmux send-keys text")

\* the PendingRequest of call p has been removed: the call ran its finally
\* clause and no entry of state._pending holds the object
Removed(p) == pc[p] = "done" /\ \A r \in DOMAIN pending : pending[r] # p

\* C25: a PendingRequest is not written (decision, reason, message_id,
\* event) once it has been removed from state._pending.
C25_NotMutatedAfterRemoval ==
    [][\A p \in Procs : Removed(p) => req'[p] = req[p]]_vars

\* two create_or_update calls for the same session id have both returned
BothReturned(a, b) ==
    /\ a # b
    /\ co[a].pc = "done" /\ co[b].pc = "done"
    /\ co[a].sid = co[b].sid

\* of two calls that returned, exactly one took the branch that creates
CreatedOnce(a, b) == Cardinality({c \in {a, b} : ~co[c].found}) = 1

\* what holds of two concurrent calls: one Session is created, and a field
\* one call supplied and the other left None has the supplied value
CreateOrUpdateSerialized ==
    \A a, b \in Callers : BothReturned(a, b) =>
        /\ CreatedOnce(a, b)
        /\ \A f \in DOMAIN co[a].kw :
              (co[a].kw[f] # None /\ co[b].kw[f] = None) =>
                  sessions[co[a].sid][f] = co[a].kw[f]

\* C26: two concurrent create_or_update calls for one new session id create
\* exactly one Session, and the session holds every non-empty field of one
\* call that the other call did not set (supplied None or "").
C26_SerializedNoLostUpdate ==
    \A a, b \in Callers : BothReturned(a, b) =>
        /\ CreatedOnce(a, b)
        /\ \A f \in DOMAIN co[a].kw :
              (~Empty(co[a].kw[f]) /\ Empty(co[b].kw[f])) =>
                  sessions[co[a].sid][f] = co[a].kw[f]

\* the listing has a pane whose terminal is exactly this device
HasExactPane(tty, listing) == \E i \in DOMAIN listing : listing[i].pane_tty = tty

\* C27: the pane the tmux method targets has exactly the terminal of the
\* session; when no pane has, it is a pane of the tmux session named claude;
\* no other pane is targeted.
C27_ExactPaneElseClaude ==
    probe.line # 0 =>
        LET p == probe.listing[probe.line] IN
        IF HasExactPane(probe.tty, probe.listing)
        THEN p.pane_tty = probe.tty
        ELSE p.session_name = Claude

\* the bridge answered this hook with the decision allow
BridgeSaidAllow(h) ==
    hook[h].answer.kind = "json" /\ hook[h].answer.decision = "allow"

\* C30: the hook prints allow only when the bridge answered with the
\* decision allow; it prints deny when stdin is not JSON and when the bridge
\* answered anything else (no decision included); it prints nothing when the
\* bridge could not be reached or failed (URLError, HTTPError, any other
\* exception).  A response that timed out is answered deny.
C30_AllowOnlyOnBridgeAllow ==
    \A h \in Hooks :
        /\ hook[h].out = "allow" => BridgeSaidAllow(h)
        /\ hook[h].pc = "exited" =>
              /\ BridgeSaidAllow(h) => hook[h].out = "allow"
              /\ hook[h].stdin = "not json" => hook[h].out = "deny"
              /\ (hook[h].answer.kind = "json" /\ ~BridgeSaidAllow(h)) =>
                    hook[h].out = "deny"
              /\ hook[h].answer.kind \in {"HTTPError", "URLError", "Exception"} =>
                    hook[h].out = "none"
              /\ hook[h].answer.kind = "TimeoutError" => hook[h].out = "deny"

\* one hook printed allow on the bridge's allow, another printed nothing
\* because the bridge was not running
C30_Witness ==
    \E g, h \in Hooks :
        /\ hook[g].pc = "exited" /\ hook[g].out = "allow" /\ BridgeSaidAllow(g)
        /\ hook[h].pc = "exited" /\ hook[h].out = "none"
        /\ hook[h].answer.kind = "URLError"

====
